---- MODULE Spec2Model ----
(***************************************************************************)
(* A model of HtmlSlotCompiler (src/rust/src/main.rs): the slot catalog,   *)
(* the page extractor, the page normalizer, the text-level merge, one      *)
(* build (build_once) over a small file tree, and the watch loop.          *)
(*                                                                         *)
(* Text is a sequence of lexemes; the byte string it stands for is the     *)
(* concatenation of its lexemes.  Every literal of the program's regular   *)
(* expressions ("<", a tag name, "slot", "=", a quote, ">", "</", "/",     *)
(* "slot-mode", white space) is one lexeme, so that a regular expression   *)
(* matches the lexeme sequence exactly where it matches the byte string.   *)
(* Texts are lexed greedily: "</" and "<!--" are single lexemes, the end   *)
(* of a comment is the two lexemes "--" and ">", and "/>" is "/" and ">".  *)
(***************************************************************************)
EXTENDS Integers, Sequences, FiniteSets, TLC

VARIABLES
    \* one page against one layout (the body of build_once's page loop)
    layout_html,      \* the layout file's text
    page_html,        \* the page file's text, as it is on disk
    first_html,       \* the page file's text before the last pass
    output_html,      \* the output file's text, or NoFile
    page_ok,          \* the last pass's result: "none", "ok", "unknown"
    prev_ok,          \* the result of the pass before the last
    wrote_page,       \* whether the last pass rewrote the page file
    merged_slot,      \* the slot merged by one call of merge_slot_string, or 0
    \* one build over a file tree (clean_output_dir, build_once)
    src_files,        \* the source root: file name -> text, or NoFile
    out_files,        \* the output root: file name -> text, or NoFile
    built,            \* what the last build_once call did: <<>> before the first
    edits,            \* the number of changes made to the source root since the start
    \* the watch loop (main)
    chan,             \* the paths the watcher sent and the loop has not received
    pending,          \* the pending-change set
    timer_active,
    last_build,       \* the instant of the last receipt (the loop's last_build)
    now,              \* the clock, in milliseconds
    wait_from,        \* the instant the current recv_timeout began
    arrived,          \* the instant of the last notification, or -1
    burst,            \* the paths notified, each less than the window after the last
    burst_builds,     \* the build_once calls made since the burst began
    builds,           \* the build_once calls made: [at, changed_paths]
    awaiting          \* the paths the watcher sent that no build has been given

vars == <<layout_html, page_html, first_html, output_html, page_ok, prev_ok,
          wrote_page, merged_slot, src_files, out_files, built, edits, chan, pending,
          timer_active, last_build, now, wait_from, arrived, burst, burst_builds, builds,
          awaiting>>

\* what a path that names no file holds: no text has this lexeme
NoFile == <<"<no file>">>

\* the function f itself, its values computed once
Computed(f) == f @@ <<>>

\* a value computed once and used under a name: F(e) is LET x == e IN the body of F
With(e, F(_)) == F(e)

(***************************************************************************)
(* Lexemes.                                                                *)
(***************************************************************************)

\* \s of the regex crate, among the lexemes used here
WhiteSpace == {" ", "\n", "\r", "\t"}

Quotes == {"\"", "'"}

\* lexemes that hold no word character ([0-9A-Za-z_]) at either end
NonWordLexemes ==
    WhiteSpace \cup Quotes \cup {"<", ">", "</", "/", "=", "<!--", "--", "!", "."}

\* lexemes that start with a word character and end with "-" or ":"
PrefixLexemes == {"for-", "data-", "attr:"}

StartsWord(x) == x \notin NonWordLexemes

EndsWord(x) == x \notin NonWordLexemes /\ x \notin PrefixLexemes

\* str::to_ascii_lowercase and the (?i) flag, on the lexemes that have capitals
Lower(x) ==
    CASE x = "DIV" -> "div"
      [] x = "IMG" -> "img"
      [] x = "MAIN" -> "main"
      [] x = "SLOT" -> "slot"
      [] x = "HTML" -> "html"
      [] x = "_LAYOUT" -> "_layout"
      [] OTHER -> x

LowerSeq(s) == [i \in DOMAIN s |-> Lower(s[i])]

Min(S) == CHOOSE x \in S : \A y \in S : x <= y

Max(S) == CHOOSE x \in S : \A y \in S : x >= y

\* the lexemes of t from a to b (empty when a > b), as SubSeq
Slice(t, a, b) == IF a > b THEN <<>> ELSE SubSeq(t, a, b)

\* the regex \b before position i of t
WordBoundary(t, i) ==
    LET left == i > 1 /\ i - 1 <= Len(t) /\ EndsWord(t[i - 1])
        right == i >= 1 /\ i <= Len(t) /\ StartsWord(t[i])
    IN  left # right

\* the first position at or after i whose lexeme is in S (Len(t)+1 at the end)
RECURSIVE FirstIn(_, _, _)
FirstIn(t, i, S) ==
    IF i > Len(t) THEN Len(t) + 1
    ELSE IF t[i] \in S THEN i
    ELSE FirstIn(t, i + 1, S)

\* the first position at or after i whose lexeme is not in S (Len(t)+1 at the end)
RECURSIVE FirstNotIn(_, _, _)
FirstNotIn(t, i, S) ==
    IF i > Len(t) THEN Len(t) + 1
    ELSE IF t[i] \notin S THEN i
    ELSE FirstNotIn(t, i + 1, S)

\* the last position at or before i whose lexeme is not in S (0 if none)
RECURSIVE LastNotIn(_, _, _)
LastNotIn(t, i, S) ==
    IF i < 1 THEN 0
    ELSE IF t[i] \notin S THEN i
    ELSE LastNotIn(t, i - 1, S)

\* the first position at or after i that holds no white space (Len(t)+1 at the end)
SkipWS(t, i) == FirstNotIn(t, i, WhiteSpace)

\* the first position at or after i that holds x, or 0
FirstAt(t, i, x) ==
    LET j == FirstIn(t, i, {x})
    IN  IF j > Len(t) THEN 0 ELSE j

\* whether the literal lit matches t at i, case-insensitively
LiteralAt(t, i, lit) ==
    /\ i >= 1
    /\ i + Len(lit) - 1 <= Len(t)
    /\ LowerSeq(Slice(t, i, i + Len(lit) - 1)) = LowerSeq(lit)

\* str::trim_end
TrimEnd(t) == Slice(t, 1, LastNotIn(t, Len(t), WhiteSpace))

(***************************************************************************)
(* The regular expressions of determine_closing_style, strip_attribute and *)
(* merge_slot_string, matched as the regex crate matches them: the         *)
(* leftmost match, greedy for * and +, shortest for *?.                    *)
(***************************************************************************)

\* slot\s*=\s*["']{name}["'] at k: the position of the closing quote, or 0
SlotAttrEnd(t, k, name) ==
    IF k < 1 \/ k > Len(t) \/ Lower(t[k]) # "slot" THEN 0
    ELSE With(SkipWS(t, k + 1), LAMBDA a :
             IF a > Len(t) \/ t[a] # "=" THEN 0
             ELSE With(SkipWS(t, a + 1), LAMBDA b :
                      IF /\ b <= Len(t)
                         /\ t[b] \in Quotes
                         /\ LiteralAt(t, b + 1, name)
                         /\ b + 1 + Len(name) <= Len(t)
                         /\ t[b + 1 + Len(name)] \in Quotes
                      THEN b + 1 + Len(name)
                      ELSE 0))

\* the last k in from..k0 where \bslot\s*=\s*["']{name}["'][^>]*> matches, or 0
RECURSIVE LastSlotAttr(_, _, _, _)
LastSlotAttr(t, k0, from, name) ==
    IF k0 < from THEN 0
    ELSE IF /\ WordBoundary(t, k0)
            /\ With(SlotAttrEnd(t, k0, name), LAMBDA e :
                    e # 0 /\ FirstAt(t, e + 1, ">") # 0)
    THEN k0
    ELSE LastSlotAttr(t, k0 - 1, from, name)

\* <{tag}\b[^>]*\bslot\s*=\s*["']{name}["'][^>]*> at i: the position of the
\* final ">", or 0 when the expression does not match at i
OpenTagEnd(t, i, tag, name) ==
    IF ~(/\ i >= 1
         /\ i + 1 <= Len(t)
         /\ t[i] = "<"
         /\ Lower(t[i + 1]) = Lower(tag)
         /\ WordBoundary(t, i + 2))
    THEN 0
    ELSE With(FirstAt(t, i + 2, ">"), LAMBDA stop :
             \* the first [^>]* is greedy: the last slot attribute before the ">"
             With(LastSlotAttr(t, IF stop = 0 THEN Len(t) ELSE stop, i + 2, name),
                  LAMBDA k : IF k = 0 THEN 0
                             ELSE FirstAt(t, SlotAttrEnd(t, k, name) + 1, ">")))

RECURSIVE FindOpenTagFrom(_, _, _, _)
FindOpenTagFrom(t, i, tag, name) ==
    IF i > Len(t) THEN 0
    ELSE IF OpenTagEnd(t, i, tag, name) # 0 THEN i
    ELSE FindOpenTagFrom(t, i + 1, tag, name)

\* the start of the leftmost match of the opening-tag expression, or 0
FindOpenTag(t, tag, name) == FindOpenTagFrom(t, 1, tag, name)

\* </{tag}> at c
CloseTagAt(t, c, tag) ==
    /\ c >= 1
    /\ c + 2 <= Len(t)
    /\ t[c] = "</"
    /\ Lower(t[c + 1]) = Lower(tag)
    /\ t[c + 2] = ">"

\* the last </{tag}> at or after i, or 0: what (.*) would match instead of (.*?)
RECURSIVE LastCloseTag(_, _, _)
LastCloseTag(t, i, tag) ==
    IF i > Len(t) THEN 0
    ELSE IF LastCloseTag(t, i + 1, tag) # 0 THEN LastCloseTag(t, i + 1, tag)
    ELSE IF CloseTagAt(t, i, tag) THEN i
    ELSE 0

\* the first </{tag}> at or after i, or 0
RECURSIVE FirstCloseTag(_, _, _)
FirstCloseTag(t, i, tag) ==
    IF i > Len(t) THEN 0
    ELSE IF CloseTagAt(t, i, tag) THEN i
    ELSE FirstCloseTag(t, i + 1, tag)

RECURSIVE FindElementFrom(_, _, _, _)
FindElementFrom(t, i, tag, name) ==
    IF i > Len(t) THEN 0
    ELSE IF With(OpenTagEnd(t, i, tag, name), LAMBDA j :
                    j # 0 /\ FirstCloseTag(t, j + 1, tag) # 0)
    THEN i
    ELSE FindElementFrom(t, i + 1, tag, name)

\* the start of the leftmost match of (<tag..slot=name..>)(.*?)(</tag>), or 0
FindElement(t, tag, name) == FindElementFrom(t, 1, tag, name)

\* \s+{attr}\s*=\s*(?:"[^"]*"|'[^']*') at p: the position of the closing quote, or 0
AttrMatchEnd(t, p, attr) ==
    IF p < 1 \/ p > Len(t) \/ t[p] \notin WhiteSpace THEN 0
    ELSE With(SkipWS(t, p), LAMBDA q :
             IF q > Len(t) \/ Lower(t[q]) # Lower(attr) THEN 0
             ELSE With(SkipWS(t, q + 1), LAMBDA a :
                      IF a > Len(t) \/ t[a] # "=" THEN 0
                      ELSE With(SkipWS(t, a + 1), LAMBDA b :
                               IF b > Len(t) \/ t[b] \notin Quotes THEN 0
                               ELSE FirstAt(t, b + 1, t[b]))))

RECURSIVE StripFrom(_, _, _)
\* Regex::replace_all(fragment, ""): every match, left to right, from position p
StripFrom(t, p, attr) ==
    IF p > Len(t) THEN <<>>
    ELSE With(AttrMatchEnd(t, p, attr), LAMBDA e :
             IF e # 0 THEN StripFrom(t, e + 1, attr)
             ELSE <<t[p]>> \o StripFrom(t, p + 1, attr))

strip_attribute(fragment, attr) == StripFrom(fragment, 1, attr)

(***************************************************************************)
(* SlotSpec and PageSlotContent.                                           *)
(*   SlotSpec: [name, mode, layout_tag, closing_style]; name and mode are  *)
(*   texts (mode "attr:src" is <<"attr:", "src">>).                        *)
(*   PageSlotContent: [tag, inner_html, attributes, original_html,         *)
(*   closing_style]; attributes is a function from attribute names (texts) *)
(*   to values (texts); original_html is a text, None when empty.          *)
(***************************************************************************)

\* Option<String>::None of original_html: Some is never the empty text
None == <<>>

VOID_TAGS ==
    {"area", "base", "br", "col", "embed", "hr", "img", "input", "link", "meta",
     "param", "source", "track", "wbr"}

is_void_element(tag) == Lower(tag) \in VOID_TAGS

\* mode.starts_with("attr:")
IsAttrMode(mode) == Len(mode) >= 1 /\ mode[1] = "attr:"

\* &mode[5..]
AttrName(mode) == Tail(mode)

determine_closing_style(layout, tag, slot_name) ==
    With(FindOpenTag(layout, tag, slot_name), LAMBDA i :
        IF i # 0
        THEN With(TrimEnd(Slice(layout, i, OpenTagEnd(layout, i, tag, slot_name))),
                  LAMBDA snippet :
                      IF /\ Len(snippet) >= 2
                         /\ snippet[Len(snippet) - 1] = "/"
                         /\ snippet[Len(snippet)] = ">"
                      THEN "SelfClosing"
                      ELSE IF is_void_element(tag) THEN "Void" ELSE "Explicit")
        ELSE IF is_void_element(tag) THEN "Void" ELSE "Explicit")

\* opening_tag.replace(">", " n=\"value\">")
RECURSIVE ReplaceGT(_, _)
ReplaceGT(t, ins) ==
    IF t = <<>> THEN <<>>
    ELSE (IF Head(t) = ">" THEN ins \o <<">">> ELSE <<Head(t)>>) \o ReplaceGT(Tail(t), ins)

\* the SelfClosing | Void branch of merge_slot_string
MergeOpeningTag(html, slot, content) ==
    With(FindOpenTag(html, slot.layout_tag, slot.name), LAMBDA i :
        IF i = 0 THEN html
        ELSE With(OpenTagEnd(html, i, slot.layout_tag, slot.name), LAMBDA j :
            \* [^>]* is greedy: group 1 runs to the ">", group 2 is the ">"
            With(TrimEnd(strip_attribute(strip_attribute(Slice(html, i, j - 1), "slot"),
                                         "slot-mode")),
                 LAMBDA opening_tag :
                     LET ending == <<html[j]>>
                         attr_name == AttrName(slot.mode)
                         builder ==
                             IF /\ IsAttrMode(slot.mode)
                                /\ attr_name \in DOMAIN content.attributes
                             THEN opening_tag
                                      \o (IF /\ opening_tag # <<>>
                                             /\ opening_tag[Len(opening_tag)] = " "
                                          THEN <<>> ELSE <<" ">>)
                                      \o attr_name \o <<"=", "\"">>
                                      \o content.attributes[attr_name] \o <<"\"">>
                             ELSE opening_tag
                     IN  Slice(html, 1, i - 1) \o builder \o ending
                             \o Slice(html, j + 1, Len(html)))))

\* the Explicit branch of merge_slot_string
MergeElement(html, slot, content) ==
    With(FindElement(html, slot.layout_tag, slot.name), LAMBDA i :
        IF i = 0 THEN html
        ELSE With(OpenTagEnd(html, i, slot.layout_tag, slot.name), LAMBDA j :
            With(FirstCloseTag(html, j + 1, slot.layout_tag), LAMBDA c :
            With(TrimEnd(strip_attribute(strip_attribute(Slice(html, i, j), "slot"),
                                         "slot-mode")),
                 LAMBDA opening_tag :
                     LET closing_tag == Slice(html, c, c + 2)
                         attr_name == AttrName(slot.mode)
                         replacement ==
                             IF slot.mode = <<"text">>
                             THEN opening_tag \o content.inner_html \o closing_tag
                             ELSE IF IsAttrMode(slot.mode)
                             THEN IF attr_name \in DOMAIN content.attributes
                                  THEN ReplaceGT(opening_tag,
                                                 <<" ">> \o attr_name \o <<"=", "\"">>
                                                     \o content.attributes[attr_name]
                                                     \o <<"\"">>)
                                           \o closing_tag
                                  ELSE opening_tag \o closing_tag
                             ELSE opening_tag \o content.inner_html \o closing_tag
                     IN  Slice(html, 1, i - 1) \o replacement
                             \o Slice(html, c + 3, Len(html))))))

\* a merge that takes every slot element to have a closing tag
MergeAsElement(html, slot, content) == MergeElement(html, slot, content)

merge_slot_string(html, slot, content) ==
    IF slot.closing_style \in {"SelfClosing", "Void"}
    THEN MergeOpeningTag(html, slot, content)
    ELSE MergeElement(html, slot, content)

(***************************************************************************)
(* The HTML parser and serializer the program calls (kuchiki::parse_html,  *)
(* select, NodeRef::serialize), on markup whose elements are closed in     *)
(* the order they were opened.  The parser reads CR LF as LF, lower-cases  *)
(* tag and attribute names, keeps the first of two attributes of one name, *)
(* takes a void element to have no content and ignores the "/" of "/>".    *)
(* The serializer writes every attribute as name="value" after one space   *)
(* and never writes "/>".                                                  *)
(***************************************************************************)

\* the tokenizer's input stream: CR LF and a lone CR become LF
RECURSIVE NormalizeNewlines(_)
NormalizeNewlines(t) ==
    IF t = <<>> THEN <<>>
    ELSE IF Head(t) = "\r"
    THEN IF Len(t) >= 2 /\ t[2] = "\n"
         THEN <<"\n">> \o NormalizeNewlines(Tail(Tail(t)))
         ELSE <<"\n">> \o NormalizeNewlines(Tail(t))
    ELSE <<Head(t)>> \o NormalizeNewlines(Tail(t))

TagStops == WhiteSpace \cup {"=", ">", "/"}

HasAttr(attrs, name) == \E n \in 1..Len(attrs) : attrs[n].name = name

\* the attributes of a tag from position i on: [attrs, to], to the tag's ">";
\* an attribute is [name, value, at, end], at..end its place in t
RECURSIVE ParseAttrs(_, _, _)
ParseAttrs(t, i, acc) ==
    With(FirstNotIn(t, i, WhiteSpace \cup {"/"}), LAMBDA p :
        IF p > Len(t) THEN [attrs |-> acc, to |-> Len(t)]
        ELSE IF t[p] = ">" THEN [attrs |-> acc, to |-> p]
        ELSE IF t[p] = "=" THEN ParseAttrs(t, p + 1, acc)
        ELSE With(FirstIn(t, p, TagStops), LAMBDA e :
             With(SkipWS(t, e), LAMBDA a :
             With(SkipWS(t, a + 1), LAMBDA b :
             With(a <= Len(t) /\ t[a] = "=", LAMBDA valued :
             With(valued /\ b <= Len(t) /\ t[b] \in Quotes, LAMBDA quoted :
             With(IF quoted THEN FirstAt(t, b + 1, t[b]) ELSE 0, LAMBDA close :
             With(IF quoted
                  THEN (IF close = 0 THEN Len(t) ELSE close - 1)
                  ELSE FirstIn(t, b, WhiteSpace \cup {">"}) - 1, LAMBDA vend :
             With(IF ~valued THEN e
                  ELSE IF quoted THEN (IF close = 0 THEN Len(t) + 1 ELSE close + 1)
                  ELSE vend + 1, LAMBDA next :
             With(LowerSeq(Slice(t, p, e - 1)), LAMBDA name :
                 LET value == IF ~valued THEN <<>>
                              ELSE IF quoted THEN Slice(t, b + 1, vend)
                              ELSE Slice(t, b, vend)
                 IN  ParseAttrs(t, next,
                                IF HasAttr(acc, name) THEN acc
                                ELSE Append(acc, [name |-> name, value |-> value,
                                                  at |-> p, end |-> next - 1]))
             ))))))))))

\* the position of the ">" that ends the comment opened before i (Len(t) if none)
RECURSIVE CommentEnd(_, _)
CommentEnd(t, i) ==
    IF i >= Len(t) THEN Len(t)
    ELSE IF t[i] = "--" /\ t[i + 1] = ">" THEN i + 1
    ELSE CommentEnd(t, i + 1)

\* the markup tokens of t from position i on: [k, name, attrs, from, to]
RECURSIVE Tokens(_, _)
Tokens(t, i) ==
    IF i > Len(t) THEN <<>>
    ELSE IF t[i] = "<!--"
    THEN With(CommentEnd(t, i + 1), LAMBDA to :
             <<[k |-> "comment", name |-> "", attrs |-> <<>>, from |-> i, to |-> to]>>
                 \o Tokens(t, to + 1))
    ELSE IF t[i] = "<" /\ i + 1 <= Len(t) /\ StartsWord(t[i + 1])
    THEN With(ParseAttrs(t, i + 2, <<>>), LAMBDA r :
             <<[k |-> "open", name |-> Lower(t[i + 1]), attrs |-> r.attrs,
                from |-> i, to |-> r.to]>>
                 \o Tokens(t, r.to + 1))
    ELSE IF t[i] = "</" /\ i + 1 <= Len(t) /\ StartsWord(t[i + 1])
    THEN With(Min({FirstIn(t, i + 2, {">"}), Len(t)}), LAMBDA to :
             <<[k |-> "close", name |-> Lower(t[i + 1]), attrs |-> <<>>,
                from |-> i, to |-> to]>>
                 \o Tokens(t, to + 1))
    ELSE <<[k |-> "text", name |-> "", attrs |-> <<>>, from |-> i, to |-> i]>>
             \o Tokens(t, i + 1)

IsElementStart(tok) == tok.k = "open" /\ ~is_void_element(tok.name)

\* the token that closes the element whose open elements are stack, scanning
\* from token v (Len(toks)+1: closed by the end of the text)
RECURSIVE ClosingToken(_, _, _)
ClosingToken(toks, v, stack) ==
    IF v > Len(toks) THEN v
    ELSE IF IsElementStart(toks[v])
    THEN ClosingToken(toks, v + 1, Append(stack, toks[v].name))
    ELSE IF toks[v].k = "close" /\ \E n \in 1..Len(stack) : stack[n] = toks[v].name
    THEN LET pos == Max({n \in 1..Len(stack) : stack[n] = toks[v].name})
         IN  IF pos = 1 THEN v
             ELSE ClosingToken(toks, v + 1, SubSeq(stack, 1, pos - 1))
    ELSE ClosingToken(toks, v + 1, stack)

\* the last token of the element opened by token u
ElementEnd(toks, u) ==
    IF IsElementStart(toks[u]) THEN ClosingToken(toks, u + 1, <<toks[u].name>>) ELSE u

\* the serializer's escape of an attribute value
EscapeAttr(v) == [i \in DOMAIN v |-> IF v[i] = "\"" THEN "&quot;" ELSE v[i]]

RECURSIVE SerializeAttrs(_)
SerializeAttrs(attrs) ==
    IF attrs = <<>> THEN <<>>
    ELSE <<" ">> \o Head(attrs).name \o <<"=", "\"">> \o EscapeAttr(Head(attrs).value)
             \o <<"\"">> \o SerializeAttrs(Tail(attrs))

SerializeOpen(tok) == <<"<", tok.name>> \o SerializeAttrs(tok.attrs) \o <<">">>

\* the serialization of the nodes made of tokens a..b of text t
RECURSIVE SerializeNodes(_, _, _, _)
SerializeNodes(t, toks, a, b) ==
    IF a > b \/ a > Len(toks) THEN <<>>
    ELSE LET tok == toks[a]
         IN  IF tok.k = "open"
             THEN With(ElementEnd(toks, a), LAMBDA e :
                      IF IsElementStart(tok)
                      THEN SerializeOpen(tok)
                               \o SerializeNodes(t, toks, a + 1,
                                                  IF e > b THEN b ELSE e - 1)
                               \o <<"</", tok.name, ">">>
                               \o SerializeNodes(t, toks, e + 1, b)
                      ELSE SerializeOpen(tok) \o SerializeNodes(t, toks, a + 1, b))
             ELSE IF tok.k = "close"
             THEN SerializeNodes(t, toks, a + 1, b)
             ELSE Slice(t, tok.from, tok.to) \o SerializeNodes(t, toks, a + 1, b)

\* Compiler::get_inner_html of the element opened by token u
get_inner_html(t, toks, u) == SerializeNodes(t, toks, u + 1, ElementEnd(toks, u) - 1)

\* Compiler::get_outer_html of the element opened by token u
get_outer_html(t, toks, u) ==
    IF IsElementStart(toks[u])
    THEN SerializeOpen(toks[u]) \o get_inner_html(t, toks, u) \o <<"</", toks[u].name, ">">>
    ELSE SerializeOpen(toks[u])

\* attrs.get(name), for a name the tag has
AttrValue(attrs, name) ==
    attrs[Min({n \in 1..Len(attrs) : attrs[n].name = name})].value

\* document.select("[name]"): the tokens that open an element with the attribute
Select(toks, name) ==
    LET RECURSIVE from(_)
        from(u) == IF u > Len(toks) THEN <<>>
                   ELSE (IF toks[u].k = "open" /\ HasAttr(toks[u].attrs, name)
                         THEN <<u>> ELSE <<>>) \o from(u + 1)
    IN  from(1)

\* parse_html().one(text): the text the tokenizer reads, and its tokens
Parse(text) ==
    LET t == NormalizeNewlines(text)
    IN  [text |-> t, toks |-> Tokens(t, 1)]

(***************************************************************************)
(* build_once, the part that handles one page: the slot catalog, the       *)
(* page's providers, the normalization of the page file and the merge.     *)
(***************************************************************************)

SLOT == <<"slot">>

SLOT_MODE == <<"slot-mode">>

FOR_SLOT == <<"for-", "slot">>

\* the slots vector of build_once: one SlotSpec per layout element with a slot attribute
Slots(layout) ==
    With(Parse(layout), LAMBDA doc :
    With(Select(doc.toks, SLOT), LAMBDA sel :
        [n \in 1..Len(sel) |->
            With(doc.toks[sel[n]], LAMBDA tok :
            With(AttrValue(tok.attrs, SLOT), LAMBDA name :
                [name |-> name,
                 mode |-> IF HasAttr(tok.attrs, SLOT_MODE)
                          THEN AttrValue(tok.attrs, SLOT_MODE)
                          ELSE <<"html">>,
                 layout_tag |-> tok.name,
                 closing_style |-> determine_closing_style(layout, tok.name, name)]))]))

SlotNames(slots) == {slots[n].name : n \in 1..Len(slots)}

\* lower_outer.contains("</tag>")
ContainsCloseTag(t, tag) == \E c \in 1..Len(t) : CloseTagAt(t, c, tag)

\* the closing style build_once gives a provider element, from its outer markup
ProviderClosingStyle(outer_html, tag) ==
    With(TrimEnd(outer_html), LAMBDA trimmed :
        IF /\ Len(trimmed) >= 2
           /\ trimmed[Len(trimmed) - 1] = "/"
           /\ trimmed[Len(trimmed)] = ">"
        THEN "SelfClosing"
        ELSE IF ContainsCloseTag(trimmed, tag) THEN "Explicit"
        ELSE IF is_void_element(tag) THEN "Void"
        ELSE "Explicit")

\* the PageSlotContent of the element opened by token u
ProviderOf(doc, u) ==
    With(doc.toks[u], LAMBDA tok :
    With(get_outer_html(doc.text, doc.toks, u), LAMBDA outer_html :
        [tag |-> tok.name,
         inner_html |-> get_inner_html(doc.text, doc.toks, u),
         attributes |-> [nm \in {tok.attrs[n].name : n \in 1..Len(tok.attrs)} |->
                            AttrValue(tok.attrs, nm)],
         original_html |-> IF outer_html = <<>> THEN None ELSE outer_html,
         closing_style |-> ProviderClosingStyle(outer_html, tok.name)]))

\* page_slots and page_slot_order: the first provider of each slot name, in page order
ExtractPage(page) ==
    With(Parse(page), LAMBDA doc :
    With(Select(doc.toks, FOR_SLOT), LAMBDA sel :
        LET nameOf(n) == AttrValue(doc.toks[sel[n]].attrs, FOR_SLOT)
        IN  With({n \in 1..Len(sel) : \A m \in 1..(n - 1) : nameOf(m) # nameOf(n)},
                 LAMBDA firsts :
                     LET RECURSIVE order(_)
                         order(n) ==
                             IF n > Len(sel) THEN <<>>
                             ELSE (IF n \in firsts THEN <<nameOf(n)>> ELSE <<>>)
                                      \o order(n + 1)
                     IN  [page_slots |->
                              Computed([nm \in {nameOf(n) : n \in firsts} |->
                                  ProviderOf(doc,
                                             sel[Min({n \in firsts : nameOf(n) = nm})])]),
                          page_slot_order |-> order(1)])))

\* a default provider that forgets the attribute of an attr: mode
BlankProvider(slot) ==
    [tag |-> slot.layout_tag,
     inner_html |-> <<>>,
     attributes |-> [nm \in {FOR_SLOT} |-> slot.name],
     original_html |-> None,
     closing_style |-> slot.closing_style]

default_slot_provider(slot) ==
    LET base == [nm \in {FOR_SLOT} |-> slot.name]
        attributes ==
            IF IsAttrMode(slot.mode)
            THEN [nm \in {FOR_SLOT, AttrName(slot.mode)} |->
                     IF nm = AttrName(slot.mode) THEN <<>> ELSE slot.name]
            ELSE base
    IN  [tag |-> slot.layout_tag,
         inner_html |-> <<>>,
         attributes |-> attributes,
         original_html |-> None,
         closing_style |-> slot.closing_style]

\* the keys of build_markup's sorted attribute list: for-slot first, then the
\* others (render reaches build_markup only for default_slot_provider's
\* content, which has at most one other key)
SortedKeys(attributes) ==
    LET others == DOMAIN attributes \ {FOR_SLOT}
        rest == CHOOSE q \in [1..Cardinality(others) -> others] :
                    \A x \in others : \E n \in DOMAIN q : q[n] = x
    IN  (IF FOR_SLOT \in DOMAIN attributes THEN <<FOR_SLOT>> ELSE <<>>) \o rest

RECURSIVE AttrString(_, _)
AttrString(attributes, keys) ==
    IF keys = <<>> THEN <<>>
    ELSE <<" ">> \o Head(keys) \o <<"=", "\"">> \o EscapeAttr(attributes[Head(keys)])
             \o <<"\"">> \o AttrString(attributes, Tail(keys))

build_markup(tag, attributes, inner_html, closing_style) ==
    LET attr_string == AttrString(attributes, SortedKeys(attributes))
    IN  IF closing_style = "SelfClosing"
        THEN <<"<", tag>> \o attr_string \o <<" ", "/", ">">>
        ELSE IF closing_style = "Void"
        THEN <<"<", tag>> \o attr_string \o <<">">>
        ELSE <<"<", tag>> \o attr_string \o <<">">> \o inner_html \o <<"</", tag, ">">>

\* PageSlotContent::render
render(content) ==
    IF content.original_html # None
    THEN content.original_html
    ELSE build_markup(content.tag, content.attributes, content.inner_html,
                      content.closing_style)

\* str::replace("\r\n", "\n")
RECURSIVE CrLfToLf(_)
CrLfToLf(t) ==
    IF t = <<>> THEN <<>>
    ELSE IF Head(t) = "\r" /\ Len(t) >= 2 /\ t[2] = "\n"
    THEN <<"\n">> \o CrLfToLf(Tail(Tail(t)))
    ELSE <<Head(t)>> \o CrLfToLf(Tail(t))

\* a rewrite that leaves the line breaks as LF
KeepLf(t) == t

\* str::replace("\n", "\r\n")
RECURSIVE LfToCrLf(_)
LfToCrLf(t) ==
    IF t = <<>> THEN <<>>
    ELSE (IF Head(t) = "\n" THEN <<"\r", "\n">> ELSE <<Head(t)>>) \o LfToCrLf(Tail(t))

\* str::trim_end_matches('\n')
TrimNewlines(t) == Slice(t, 1, LastNotIn(t, Len(t), {"\n"}))

\* page_html.contains("\r\n")
ContainsCrLf(t) == \E j \in 1..(Len(t) - 1) : t[j] = "\r" /\ t[j + 1] = "\n"

EndsWithNewline(t) == t # <<>> /\ t[Len(t)] = "\n"

\* blocks joined by one line break instead of a blank line
RECURSIVE JoinLines(_)
JoinLines(blocks) ==
    IF blocks = <<>> THEN <<>>
    ELSE IF Len(blocks) = 1 THEN blocks[1]
    ELSE blocks[1] \o <<"\n">> \o JoinLines(Tail(blocks))

\* blocks.join("\n\n")
RECURSIVE Join(_)
Join(blocks) ==
    IF blocks = <<>> THEN <<>>
    ELSE IF Len(blocks) = 1 THEN blocks[1]
    ELSE blocks[1] \o <<"\n", "\n">> \o Join(Tail(blocks))

\* page_slots_for_merge: the page's providers, and a default for each slot it lacks
SlotsForMerge(slots, page_slots) ==
    Computed([nm \in DOMAIN page_slots \cup SlotNames(slots) |->
                 IF nm \in DOMAIN page_slots THEN page_slots[nm]
                 ELSE default_slot_provider(
                          slots[Min({n \in 1..Len(slots) : slots[n].name = nm})])])

\* the text build_once would write to the page file
NormalizedPage(slots, for_merge, page) ==
    With(TrimNewlines(Join([n \in 1..Len(slots) |-> render(for_merge[slots[n].name])])),
         LAMBDA normalized_compare :
    With(IF EndsWithNewline(page) THEN normalized_compare \o <<"\n">>
         ELSE normalized_compare,
         LAMBDA with_newline :
             LET original_compare == TrimNewlines(CrLfToLf(page))
                 final_text == IF ContainsCrLf(page) THEN LfToCrLf(with_newline)
                               ELSE with_newline
             IN  [differs |-> normalized_compare # original_compare,
                  final_text |-> final_text]))

\* write_if_changed: what the file holds afterwards, and whether it was written
write_if_changed(existing, contents) ==
    IF existing # NoFile /\ existing = contents
    THEN [wrote |-> FALSE, holds |-> existing]
    ELSE [wrote |-> TRUE, holds |-> contents]

\* the merge loop of build_once: the slots from n on, into the running output
RECURSIVE MergeSlots(_, _, _, _)
MergeSlots(html, slots, for_merge, n) ==
    IF n > Len(slots) THEN html
    ELSE MergeSlots(merge_slot_string(html, slots[n], for_merge[slots[n].name]),
                    slots, for_merge, n + 1)

\* one page of build_once's loop: page is the page file's text, out what the
\* output file holds.  pass: "unknown" (the page names a slot the layout does
\* not have: nothing is written) or "ok".
BuildPage(layout, page, out) ==
    With(Slots(layout), LAMBDA slots :
    With(ExtractPage(page), LAMBDA ex :
        IF DOMAIN ex.page_slots \ SlotNames(slots) # {}
        THEN [pass |-> "unknown", page |-> page, wrote_page |-> FALSE, out |-> out,
              wrote_out |-> FALSE]
        ELSE With(SlotsForMerge(slots, ex.page_slots), LAMBDA for_merge :
             With(NormalizedPage(slots, for_merge, page), LAMBDA norm :
             With(IF norm.differs
                  THEN write_if_changed(page, norm.final_text)
                  ELSE [wrote |-> FALSE, holds |-> page], LAMBDA page_write :
             With(write_if_changed(out, MergeSlots(layout, slots, for_merge, 1)),
                  LAMBDA out_write :
                      [pass |-> "ok", page |-> page_write.holds,
                       wrote_page |-> page_write.wrote,
                       out |-> out_write.holds, wrote_out |-> out_write.wrote]))))))

(***************************************************************************)
(* Markup written lexeme by lexeme.                                        *)
(***************************************************************************)

\* name="value"
Attr(name, value) == name \o <<"=", "\"">> \o value \o <<"\"">>

\* name='value'
AttrSQ(name, value) == name \o <<"=", "'">> \o value \o <<"'">>

\* <tag a1 a2 ...>
Open(tag, attrs) ==
    LET RECURSIVE spaced(_)
        spaced(as) == IF as = <<>> THEN <<>> ELSE <<" ">> \o Head(as) \o spaced(Tail(as))
    IN  <<"<", tag>> \o spaced(attrs) \o <<">">>

\* <tag a1 a2 ... />
OpenSC(tag, attrs) ==
    LET o == Open(tag, attrs)
    IN  SubSeq(o, 1, Len(o) - 1) \o <<" ", "/", ">">>

Close(tag) == <<"</", tag, ">">>

Elem(tag, attrs, inner) == Open(tag, attrs) \o inner \o Close(tag)

Comment(inner) == <<"<!--">> \o inner \o <<"--", ">">>

(***************************************************************************)
(* The layouts and pages the model is run on.  A layout is made of at most *)
(* MaxLayoutParts of the parts below, in this order, one per line; a page  *)
(* of at most MaxPageParts provider elements, in this order or the         *)
(* reverse, in one of the page formats.  Slot attributes are written as    *)
(* the program's documentation writes them: quoted.                        *)
(***************************************************************************)

MaxLayoutParts == 2

MaxPageParts == 2

W(x) == <<x>>

LayoutParts ==
    << \* <title slot="title"></title>
       Elem("title", <<Attr(SLOT, W("title"))>>, <<>>),
       \* <!-- note --><p data-slot="title">static</p>
       Comment(<<" ", "note", " ">>)
           \o Elem("p", <<Attr(<<"data-", "slot">>, W("title"))>>, W("static")),
       \* <MAIN class="c" slot='body' slot-mode="text" >old</MAIN>
       <<"<", "MAIN", " ">> \o Attr(W("class"), W("c")) \o <<" ">>
           \o AttrSQ(SLOT, W("body")) \o <<" ">> \o Attr(SLOT_MODE, W("text"))
           \o <<" ", ">", "old">> \o Close("MAIN"),
       \* <div slot="body"><div>default</div></div>
       Elem("div", <<Attr(SLOT, W("body"))>>, Elem("div", <<>>, W("default"))),
       \* <img slot="logo" slot-mode="attr:src" />
       OpenSC("img", <<Attr(SLOT, W("logo")), Attr(SLOT_MODE, <<"attr:", "src">>)>>),
       \* <img alt="x" slot="pic" >
       <<"<", "img", " ">> \o Attr(W("alt"), W("x")) \o <<" ">> \o Attr(SLOT, W("pic"))
           \o <<" ", ">">>,
       \* <a slot="link" slot-mode="attr:href">more</a>
       Elem("a", <<Attr(SLOT, W("link")), Attr(SLOT_MODE, <<"attr:", "href">>)>>,
            W("more")) >>

PageParts ==
    << \* <span for-slot="title">Home</span>
       Elem("span", <<Attr(FOR_SLOT, W("title"))>>, W("Home")),
       \* <div for-slot='body'><p>Hi</p></div>
       Elem("div", <<AttrSQ(FOR_SLOT, W("body"))>>, Elem("p", <<>>, W("Hi"))),
       \* <img for-slot="logo" src="a.png">
       Open("img", <<Attr(FOR_SLOT, W("logo")), Attr(W("src"), W("a.png"))>>),
       \* <span for-slot="pic" src="p.png">inner</span>
       Elem("span", <<Attr(FOR_SLOT, W("pic")), Attr(W("src"), W("p.png"))>>, W("inner")),
       \* <a for-slot="link" href="u">x</a>
       Elem("a", <<Attr(FOR_SLOT, W("link")), Attr(W("href"), W("u"))>>, W("x")),
       \* <h1 for-slot="title"><!-- <main slot="body"> --></h1>
       Elem("h1", <<Attr(FOR_SLOT, W("title"))>>,
            Comment(<<" ">> \o Open("main", <<Attr(SLOT, W("body"))>>) \o <<" ">>)) >>

\* how a page separates its provider elements, and how it ends
BlankLines == [sep |-> <<"\n", "\n">>, end |-> <<>>]

PageFormats ==
    { BlankLines,
      [sep |-> <<"\r", "\n", "\r", "\n">>, end |-> <<"\r", "\n">>],
      [sep |-> <<"\n">>, end |-> <<"\n", "\n">>] }

\* the increasing sequences of at most max indices of 1..n
Picks(n, max) ==
    {q \in UNION {[1..k -> 1..n] : k \in 0..max} :
        \A i \in 1..(Len(q) - 1) : q[i] < q[i + 1]}

Reverse(q) == [i \in 1..Len(q) |-> q[Len(q) + 1 - i]]

RECURSIVE JoinWith(_, _)
JoinWith(blocks, sep) ==
    IF blocks = <<>> THEN <<>>
    ELSE IF Len(blocks) = 1 THEN blocks[1]
    ELSE blocks[1] \o sep \o JoinWith(Tail(blocks), sep)

Layouts ==
    {JoinWith([i \in 1..Len(q) |-> LayoutParts[q[i]]], <<"\n">>) \o <<"\n">> :
        q \in Picks(Len(LayoutParts), MaxLayoutParts) \ {<<>>}}

PageOf(q, f) == JoinWith([i \in 1..Len(q) |-> PageParts[q[i]]], f.sep) \o f.end

Pages ==
    {PageOf(q, f) :
        q \in Picks(Len(PageParts), MaxPageParts)
              \cup {Reverse(p) : p \in Picks(Len(PageParts), MaxPageParts)},
        f \in PageFormats}

\* the pages whose providers are in the order of PageParts, a blank line apart
PlainPages == {PageOf(q, BlankLines) : q \in Picks(Len(PageParts), MaxPageParts)}

\* the variables of the other specifications
TreeVars == <<src_files, out_files, built, edits>>

WatchVars == <<chan, pending, timer_active, last_build, now, wait_from, arrived, burst,
               burst_builds, builds, awaiting>>

TreeIdle ==
    /\ src_files = <<>>
    /\ out_files = <<>>
    /\ built = <<>>
    /\ edits = 0

WatchIdle ==
    /\ chan = <<>>
    /\ pending = {}
    /\ timer_active = FALSE
    /\ last_build = 0
    /\ now = 0
    /\ wait_from = 0
    /\ arrived = -1
    /\ burst = {}
    /\ burst_builds = 0
    /\ builds = <<>>
    /\ awaiting = {}

(***************************************************************************)
(* SpecMerge: one call of merge_slot_string, on a layout's text, for one   *)
(* slot of its catalog and the content build_once has for that slot.       *)
(***************************************************************************)

InitMerge ==
    /\ layout_html \in Layouts
    /\ page_html \in PlainPages
    /\ first_html = page_html
    /\ output_html = NoFile
    /\ page_ok = "none"
    /\ prev_ok = "none"
    /\ wrote_page = FALSE
    /\ merged_slot = 0
    /\ TreeIdle
    /\ WatchIdle

\* the content build_once merges for slot n of the layout's catalog
ContentFor(layout, page, n) ==
    LET slots == Slots(layout)
    IN  SlotsForMerge(slots, ExtractPage(page).page_slots)[slots[n].name]

\* whether build_once reaches the merge loop for the page: it names no unknown slot
KnownSlots(layout, page) ==
    DOMAIN ExtractPage(page).page_slots \subseteq SlotNames(Slots(layout))

MergeSlot ==
    /\ merged_slot = 0
    /\ KnownSlots(layout_html, page_html)
    /\ \E n \in 1..Len(Slots(layout_html)) :
          /\ merged_slot' = n
          /\ output_html' = merge_slot_string(layout_html, Slots(layout_html)[n],
                                              ContentFor(layout_html, page_html, n))
    /\ UNCHANGED <<layout_html, page_html, first_html, page_ok, prev_ok, wrote_page,
                   TreeVars, WatchVars>>

NextMerge == MergeSlot

SpecMerge == InitMerge /\ [][NextMerge]_vars

(***************************************************************************)
(* What one merge must produce, stated on the parser's reading of the      *)
(* layout: the slot's element is the first element with the slot's tag and *)
(* slot="name".                                                            *)
(***************************************************************************)

\* whether the literal lit occurs in t
Occurs(t, lit) == \E i \in 1..Len(t) : LiteralAt(t, i, lit)

\* the token that opens the slot's element in the layout's tokens, or 0
SlotToken(toks, slot) ==
    LET found == {u \in 1..Len(toks) :
                     /\ toks[u].k = "open"
                     /\ toks[u].name = slot.layout_tag
                     /\ HasAttr(toks[u].attrs, SLOT)
                     /\ AttrValue(toks[u].attrs, SLOT) = slot.name}
    IN  IF found = {} THEN 0 ELSE Min(found)

\* the first closing tag of the tag after token u, or 0
CloseAfter(toks, u, tag) ==
    LET found == {v \in (u + 1)..Len(toks) : toks[v].k = "close" /\ toks[v].name = tag}
    IN  IF found = {} THEN 0 ELSE Min(found)

\* the lexemes a..b of t whose positions are not in drop
RECURSIVE Without(_, _, _, _)
Without(t, a, b, drop) ==
    IF a > b THEN <<>>
    ELSE (IF a \in drop THEN <<>> ELSE <<t[a]>>) \o Without(t, a + 1, b, drop)

\* the opening tag tok of t without its slot and slot-mode attributes and the
\* white space before each of them
CleanedTag(t, tok) ==
    Without(t, tok.from, tok.to,
            {p \in tok.from..tok.to :
                \E n \in 1..Len(tok.attrs) :
                    /\ tok.attrs[n].name \in {SLOT, SLOT_MODE}
                    /\ p <= tok.attrs[n].end
                    /\ p > LastNotIn(t, tok.attrs[n].at - 1, WhiteSpace)})

\* the names and values of a tag's attributes, in order
NamesAndValues(attrs) == [n \in 1..Len(attrs) |-> <<attrs[n].name, attrs[n].value>>]

\* the slot merged, and the content merged into it
MergedSlot == Slots(layout_html)[merged_slot]

MergedContent == ContentFor(layout_html, page_html, merged_slot)

C13_ExplicitAttr ==
    (/\ merged_slot # 0
     /\ MergedSlot.closing_style = "Explicit"
     /\ IsAttrMode(MergedSlot.mode))
        => LET toks == Tokens(layout_html, 1)
               u == SlotToken(toks, MergedSlot)
               before == Slice(layout_html, 1, toks[u].from - 1)
               after == Slice(layout_html, toks[u].to + 1, Len(layout_html))
               tag == Slice(output_html, Len(before) + 1, Len(output_html) - Len(after))
               new == Tokens(tag, 1)
               kept == SelectSeq(NamesAndValues(toks[u].attrs),
                                 LAMBDA a : a[1] \notin {SLOT, SLOT_MODE})
               n == AttrName(MergedSlot.mode)
               added == IF n \in DOMAIN MergedContent.attributes
                        THEN <<<<n, MergedContent.attributes[n]>>>>
                        ELSE <<>>
           IN  /\ u # 0
               /\ Len(output_html) >= Len(before) + Len(after)
               /\ output_html = before \o tag \o after
               /\ Len(new) = 1
               /\ new[1].k = "open"
               /\ new[1].name = MergedSlot.layout_tag
               /\ new[1].to = Len(tag)
               /\ NamesAndValues(new[1].attrs) = kept \o added

\* whether a tag's text ends with "/>"
EndsSelfClosed(tag) ==
    Len(tag) >= 2 /\ tag[Len(tag) - 1] = "/" /\ tag[Len(tag)] = ">"

\* C14 as stated: merging a slot whose closing style is SelfClosing or Void and
\* whose mode is attr:n, with a provider that has n, puts in the place of the
\* slot's opening tag one opening tag of the same name whose attributes are
\* the layout's without slot and slot-mode, followed by n with the provider's
\* value, and which ends with "/>" exactly when the layout's tag does; the
\* text before and after it is the layout's.
C14_VoidAttr ==
    (/\ merged_slot # 0
     /\ MergedSlot.closing_style \in {"SelfClosing", "Void"}
     /\ IsAttrMode(MergedSlot.mode)
     /\ AttrName(MergedSlot.mode) \in DOMAIN MergedContent.attributes)
        => LET toks == Tokens(layout_html, 1)
               u == SlotToken(toks, MergedSlot)
               before == Slice(layout_html, 1, toks[u].from - 1)
               after == Slice(layout_html, toks[u].to + 1, Len(layout_html))
               tag == Slice(output_html, Len(before) + 1, Len(output_html) - Len(after))
               new == Tokens(tag, 1)
               kept == SelectSeq(NamesAndValues(toks[u].attrs),
                                 LAMBDA a : a[1] \notin {SLOT, SLOT_MODE})
               n == AttrName(MergedSlot.mode)
           IN  /\ u # 0
               /\ Len(output_html) >= Len(before) + Len(after)
               /\ output_html = before \o tag \o after
               /\ Len(new) = 1
               /\ new[1].k = "open"
               /\ new[1].name = MergedSlot.layout_tag
               /\ new[1].to = Len(tag)
               /\ NamesAndValues(new[1].attrs)
                      = kept \o <<<<n, MergedContent.attributes[n]>>>>
               /\ EndsSelfClosed(tag)
                      <=> EndsSelfClosed(Slice(layout_html, toks[u].from, toks[u].to))

(***************************************************************************)
(* SpecPage: one page file built against one layout, build after build     *)
(* (the body of build_once's page loop, run once per build).               *)
(***************************************************************************)

InitPage ==
    /\ layout_html \in Layouts
    /\ page_html \in Pages
    /\ first_html = page_html
    /\ output_html = NoFile
    /\ page_ok = "none"
    /\ prev_ok = "none"
    /\ wrote_page = FALSE
    /\ merged_slot = 0
    /\ TreeIdle
    /\ WatchIdle

\* one pass of build_once over the page
BuildPass ==
    /\ \E r \in {BuildPage(layout_html, page_html, output_html)} :
          /\ page_html' = r.page
          /\ output_html' = r.out
          /\ page_ok' = r.pass
          /\ wrote_page' = r.wrote_page
    /\ first_html' = page_html
    /\ prev_ok' = page_ok
    /\ UNCHANGED <<layout_html, merged_slot, TreeVars, WatchVars>>

NextPage == BuildPass

SpecPage == InitPage /\ [][NextPage]_vars

(***************************************************************************)
(* The frame of the merge: the layout's text outside its slot elements, as *)
(* the parser delimits them.                                               *)
(***************************************************************************)

\* the last position of the element opened by token u of t
ElementLast(t, toks, u) ==
    IF ~IsElementStart(toks[u]) THEN toks[u].to
    ELSE IF ElementEnd(toks, u) > Len(toks) THEN Len(t)
    ELSE toks[ElementEnd(toks, u)].to

\* the positions of t inside a slot element
InSlotElement(t) ==
    LET toks == Tokens(t, 1)
    IN  {p \in 1..Len(t) :
            \E u \in 1..Len(toks) :
                /\ toks[u].k = "open"
                /\ HasAttr(toks[u].attrs, SLOT)
                /\ toks[u].from <= p
                /\ p <= ElementLast(t, toks, u)}

\* the texts of t between its slot elements, the text before the first and the
\* text after the last included (each may be empty)
RECURSIVE SegmentsFrom(_, _, _, _)
SegmentsFrom(t, inside, p, cur) ==
    IF p > Len(t) THEN <<cur>>
    ELSE IF p \notin inside THEN SegmentsFrom(t, inside, p + 1, Append(cur, t[p]))
    ELSE IF p > 1 /\ (p - 1) \in inside THEN SegmentsFrom(t, inside, p + 1, cur)
    ELSE <<cur>> \o SegmentsFrom(t, inside, p + 1, <<>>)

StaticSegments(t) == SegmentsFrom(t, InSlotElement(t), 1, <<>>)

\* the first place from a on where seg stands in out and ends by b, or 0
RECURSIVE PlaceOf(_, _, _, _)
PlaceOf(out, seg, a, b) ==
    IF a + Len(seg) - 1 > b THEN 0
    ELSE IF Slice(out, a, a + Len(seg) - 1) = seg THEN a
    ELSE PlaceOf(out, seg, a + 1, b)

\* whether segments n..last stand in out in this order within a..b
RECURSIVE Fits(_, _, _, _, _, _)
Fits(out, segs, n, last, a, b) ==
    IF n > last THEN TRUE
    ELSE LET q == PlaceOf(out, segs[n], a, b)
         IN  q # 0 /\ Fits(out, segs, n + 1, last, q + Len(segs[n]), b)

\* whether out is the layout with only its slot elements replaced
FramePreserved(layout, out) ==
    LET segs == StaticSegments(layout)
        k == Len(segs)
    IN  IF k = 1 THEN out = layout
        ELSE /\ Len(out) >= Len(segs[1]) + Len(segs[k])
             /\ Slice(out, 1, Len(segs[1])) = segs[1]
             /\ Slice(out, Len(out) - Len(segs[k]) + 1, Len(out)) = segs[k]
             /\ Fits(out, segs, 2, k - 1, Len(segs[1]) + 1, Len(out) - Len(segs[k]))

\* C2 as stated: the output of a page that built is the layout with nothing
\* changed outside its slot elements, whatever the providers contain.
C2_Frame == (page_ok = "ok") => FramePreserved(layout_html, output_html)

\* the pairs of tokens of a layout that open two elements declaring one slot
\* name, the first before the second
DuplicateSlots(toks) ==
    {pair \in (1..Len(toks)) \X (1..Len(toks)) :
        /\ pair[1] < pair[2]
        /\ \A u \in {pair[1], pair[2]} : toks[u].k = "open" /\ HasAttr(toks[u].attrs, SLOT)
        /\ AttrValue(toks[pair[1]].attrs, SLOT) = AttrValue(toks[pair[2]].attrs, SLOT)}

\* C15 as stated: when two elements of the layout declare one slot name, the
\* second stands in the output of a page that built exactly as it is in the
\* layout, its slot attributes and content included.
C15_SecondSlot ==
    (page_ok = "ok")
        => LET toks == Tokens(layout_html, 1)
           IN  \A pair \in DuplicateSlots(toks) :
                   Occurs(output_html,
                          Slice(layout_html, toks[pair[2]].from,
                                ElementLast(layout_html, toks, pair[2])))

\* C4 as stated: a pass over the page file left by a pass that built the page
\* does not rewrite it.
C4_Idempotent ==
    (prev_ok = "ok" /\ page_ok = "ok") => (~wrote_page /\ page_html = first_html)

(***************************************************************************)
(* The page file before and after a pass, read with the parser.            *)
(***************************************************************************)

\* the names of the layout's slots, in catalog order
CatalogNames(layout) == [n \in 1..Len(Slots(layout)) |-> Slots(layout)[n].name]

\* the for-slot names of a page's provider elements, in page order
ProviderNames(page) ==
    LET doc == Parse(page)
        sel == Select(doc.toks, FOR_SLOT)
    IN  [n \in 1..Len(sel) |-> AttrValue(doc.toks[sel[n]].attrs, FOR_SLOT)]

\* the page's provider elements as the serializer writes them, a blank line apart
CanonicalText(page) ==
    LET doc == Parse(page)
        sel == Select(doc.toks, FOR_SLOT)
    IN  JoinWith([n \in 1..Len(sel) |-> get_outer_html(doc.text, doc.toks, sel[n])],
                 <<"\n", "\n">>)

\* whether the page is its canonical text, CR LF read as LF, up to line breaks
\* at its end
IsCanonical(page) ==
    LET t == NormalizeNewlines(page)
    IN  Slice(t, 1, LastNotIn(t, Len(t), {"\n"})) = CanonicalText(page)

OneTrailingBreak(t) ==
    /\ Len(t) >= 1
    /\ t[Len(t)] = "\n"
    /\ LastNotIn(t, Len(t), {"\r"}) = Len(t)
    /\ LET body == IF Len(t) >= 2 /\ t[Len(t) - 1] = "\r"
                   THEN Len(t) - 2 ELSE Len(t) - 1
       IN  body = 0 \/ t[body] \notin {"\r", "\n"}

\* C10: a rewritten page file ends with exactly one line break if the file
\* before ended with one and with none otherwise; each of its line breaks is
\* CR LF if the file before held a CR LF, and LF otherwise.
C10_LineEndings ==
    wrote_page
        => /\ IF first_html # <<>> /\ first_html[Len(first_html)] = "\n"
              THEN OneTrailingBreak(page_html)
              ELSE page_html = <<>> \/ page_html[Len(page_html)] \notin {"\r", "\n"}
           /\ IF \E j \in 1..(Len(first_html) - 1) :
                     first_html[j] = "\r" /\ first_html[j + 1] = "\n"
              THEN \A j \in 1..Len(page_html) :
                      /\ page_html[j] = "\n" => (j > 1 /\ page_html[j - 1] = "\r")
                      /\ page_html[j] = "\r"
                             => (j < Len(page_html) /\ page_html[j + 1] = "\n")
              ELSE \A j \in 1..Len(page_html) : page_html[j] # "\r"

\* a page written with CR LF and ending with a line break has been rewritten
\* into two provider blocks
C10_Witness ==
    /\ wrote_page
    /\ Occurs(first_html, <<"\r", "\n">>)
    /\ first_html[Len(first_html)] = "\n"
    /\ Len(ProviderNames(page_html)) = 2
    /\ Occurs(page_html, <<"\r", "\n", "\r", "\n", "<">>)

(***************************************************************************)
(* The file tree.  A file name is [stem, ext]; a path is [dir, name].  The *)
(* source root is the directory "src" (main canonicalizes it); "alias" is  *)
(* another spelling of the same directory, one that canonicalize resolves. *)
(* The files of a build do not change while build_once runs.               *)
(***************************************************************************)

LAYOUT == [stem |-> "_layout", ext |-> "html"]

\* the page files: one written with a lower-case extension, one with an
\* upper-case one
PageNames == {[stem |-> "a", ext |-> "html"], [stem |-> "b", ext |-> "HTML"]}

AssetNames == {[stem |-> "s", ext |-> "css"]}

FileNames == {LAYOUT} \cup PageNames \cup AssetNames

Dirs == {"src", "alias"}

\* the paths a changed-path set may hold: the files of the source root, and
\* the layout and one page under the directory's other spelling
Paths ==
    [dir : {"src"}, name : FileNames]
        \cup [dir : {"alias"}, name : {LAYOUT, [stem |-> "a", ext |-> "html"]}]

\* Path::exists
Exists(src, path) == path.name \in DOMAIN src /\ src[path.name] # NoFile

\* Path::canonicalize, of a path that exists
Canonical(path) == [dir |-> "src", name |-> path.name]

\* file_name.eq_ignore_ascii_case("_layout.html")
IsLayoutName(name) == Lower(name.stem) = "_layout" /\ Lower(name.ext) = "html"

is_html_file(name) == Lower(name.ext) = "html"

\* the two directories are one: both canonicalize to the source root
paths_equivalent(src, a, b) ==
    \/ a = b
    \/ Exists(src, a) /\ Exists(src, b) /\ Canonical(a) = Canonical(b)

\* the layout path of the Compiler
layout_path == [dir |-> "src", name |-> LAYOUT]

\* a path that matches the layout by its name only, whatever exists
MatchesLayoutPathOnly(src, path) == path = layout_path

path_matches_layout(src, path) ==
    \/ paths_equivalent(src, layout_path, path)
    \/ IsLayoutName(path.name) /\ path.dir \in Dirs

\* a retry window that finds every path gone
AlwaysMissing(src, path) == TRUE

\* the files are as they are for the whole call: missing now is missing after
\* the three retries
path_missing_with_retry(src, path) == ~Exists(src, path)

\* the page path of a watched path: a set of one path, or of none
normalize_watch_path(src, path) ==
    IF ~Exists(src, path) THEN {}
    ELSE IF path_matches_layout(src, Canonical(path)) THEN {}
    ELSE IF ~is_html_file(path.name) THEN {}
    ELSE {Canonical(path)}

\* the output root after remove_output_for_path
remove_output_for_path(out, path) ==
    IF IsLayoutName(path.name) THEN out
    ELSE [out EXCEPT ![path.name] = NoFile]

expected_output_set(src) ==
    {n \in FileNames : src[n] # NoFile /\ ~(is_html_file(n) /\ IsLayoutName(n))}

\* the output root after clean_output_dir
clean_output_dir(src, out) ==
    [n \in FileNames |-> IF n \in expected_output_set(src) THEN out[n] ELSE NoFile]

\* the SHA-256 digest of a file's bytes (of no bytes, when the file cannot be
\* opened): two contents have one digest when they are one content
file_hash(file) == [sha256 |-> IF file = NoFile THEN <<>> ELSE file]

\* a comparison that finds no two files equal
NeverEqual(a, b) == FALSE

file_hash_equal(a, b) == file_hash(a) = file_hash(b)

\* the source files copy_assets_diff walks and does not skip:
\* file_name.ends_with(".html") compares the case of the letters
AssetCandidates(src) == {n \in FileNames : src[n] # NoFile /\ n.ext # "html"}

\* needs_copy, of an asset of the source root
needs_copy(src, out, n) ==
    IF out[n] # NoFile THEN ~file_hash_equal(src[n], out[n]) ELSE TRUE

\* the files fs::copy writes in copy_assets_diff
AssetsCopied(src, out) == {n \in AssetCandidates(src) : needs_copy(src, out, n)}

\* the output root after copy_assets_diff
copy_assets_diff(src, out) ==
    [n \in FileNames |-> IF n \in AssetsCopied(src, out) THEN src[n] ELSE out[n]]

\* what the page loop of build_once does with each page file of the source
\* root, when it reaches it (a page it reaches exists, and so does not have
\* its output removed first)
PageBuilds(src, out) ==
    Computed([n \in {m \in FileNames : src[LAYOUT] # NoFile /\ src[m] # NoFile
                                          /\ is_html_file(m) /\ ~IsLayoutName(m)} |->
                 BuildPage(src[LAYOUT], src[n], out[n])])

\* build_once, given PageBuilds: changed is {} (None) or {paths} (Some(paths)),
\* paths a set of paths.  ran: the layout was read; page_paths: the pages of
\* the page loop; result: what the loop did with each.
BuildOnceWith(src, out, changed, built_page) ==
    IF src[LAYOUT] = NoFile
    THEN [ran |-> FALSE, ok |-> FALSE, full_rebuild |-> FALSE, page_paths |-> {},
          result |-> <<>>, src |-> src, out |-> out, before |-> out, merged |-> out,
          copied |-> {}]
    ELSE LET paths == UNION changed
             full_rebuild ==
                 \/ changed = {}
                 \/ paths = {}
                 \/ \E path \in paths : path_missing_with_retry(src, path)
                 \/ \E path \in paths : path_matches_layout(src, path)
                 \/ \E n \in FileNames :
                        /\ src[n] # NoFile
                        /\ is_html_file(n)
                        /\ ~IsLayoutName(n)
                        /\ out[n] = NoFile
             removed == [n \in FileNames |->
                            IF \E path \in paths :
                                   /\ path_missing_with_retry(src, path)
                                   /\ remove_output_for_path(out, path)[n] # out[n]
                            THEN NoFile ELSE out[n]]
             entries == {[dir |-> "src", name |-> n] : n \in {m \in FileNames : src[m] # NoFile}}
             page_paths == UNION {normalize_watch_path(src, path) :
                                     path \in IF full_rebuild THEN entries ELSE paths}
             pages == {path.name : path \in page_paths}
             merged == [n \in FileNames |->
                           IF n \in pages /\ built_page[n].pass = "ok"
                           THEN built_page[n].out ELSE removed[n]]
             normalized == [n \in FileNames |->
                               IF n \in pages THEN built_page[n].page ELSE src[n]]
         IN  [ran |-> TRUE,
              ok |-> \A n \in pages : built_page[n].pass = "ok",
              full_rebuild |-> full_rebuild,
              page_paths |-> pages,
              result |-> [n \in pages |-> built_page[n].pass],
              src |-> normalized,
              out |-> copy_assets_diff(normalized, merged),
              before |-> out,
              merged |-> merged,
              copied |-> AssetsCopied(normalized, merged)]

build_once(src, out, changed) == BuildOnceWith(src, out, changed, PageBuilds(src, out))

(***************************************************************************)
(* SpecBuild: the program started on a source root and an output root      *)
(* left by earlier runs (clean_output_dir, build_once(None)), then edits   *)
(* of the source root and the builds of watch mode, each given some set of *)
(* changed paths.                                                          *)
(***************************************************************************)

MaxEdits == 1

MaxChanged == 2

TitleLayout == LayoutParts[1] \o <<"\n">>

TitleBodyLayout == LayoutParts[1] \o <<"\n">> \o LayoutParts[4] \o <<"\n">>

\* the texts a source file may hold
TextsOf(n) ==
    IF n = LAYOUT THEN {TitleLayout, TitleBodyLayout}
    ELSE IF n \in PageNames THEN {PageParts[1], PageParts[1] \o <<"\n", "\n">> \o PageParts[2]}
    ELSE {<<"css">>, <<"css", "2">>}

\* what an output file may hold before the program starts
OldOutputs == {NoFile, <<"old">>}

ChangedSets == {c \in SUBSET Paths : Cardinality(c) <= MaxChanged}

PageIdle ==
    /\ layout_html = <<>>
    /\ page_html = <<>>
    /\ first_html = <<>>
    /\ output_html = NoFile
    /\ page_ok = "none"
    /\ prev_ok = "none"
    /\ wrote_page = FALSE
    /\ merged_slot = 0

InitBuild ==
    /\ PageIdle
    /\ WatchIdle
    /\ src_files \in {f \in [FileNames -> UNION {TextsOf(n) : n \in FileNames} \cup {NoFile}] :
                          /\ f[LAYOUT] # NoFile
                          /\ \A n \in FileNames : f[n] \in TextsOf(n) \cup {NoFile}}
    /\ out_files \in {f \in [FileNames -> OldOutputs] :
                          \A n \in FileNames \ PageNames : f[n] = NoFile}
    /\ built = <<>>
    /\ edits = 0

\* whether a path names the layout file, under either spelling of the source root
ResolvesToLayout(path) == path.dir \in Dirs /\ path.name = LAYOUT

\* the page documents of a source root
PageDocuments(src) ==
    {n \in FileNames : src[n] # NoFile /\ Lower(n.ext) = "html" /\ n # LAYOUT}

\* what a build_once call leaves in built: watch (the call had a changed-path
\* set), named_layout (the set held a path that resolves to the layout file),
\* named_others (it held another path), all_exist (every path of the set
\* existed), missing (the files, other than the layout, that the set named
\* and that did not exist), named_pages (the page documents the set named), documents (the
\* page documents of the source root at the call), outputs_present (each had
\* its output file), others_untouched (the page files and the output files of
\* the page documents the set did not name were as before when the page loop
\* ended), and what the call did
BuildRecord(src, r, changed) ==
    [watch |-> changed # {},
     named_layout |-> \E path \in UNION changed : ResolvesToLayout(path),
     named_others |-> \E path \in UNION changed : ~ResolvesToLayout(path),
     all_exist |-> \A path \in UNION changed : Exists(src, path),
     named_pages |-> {path.name : path \in UNION changed} \cap PageDocuments(src),
     missing |-> {path.name : path \in {q \in UNION changed :
                                            ~Exists(src, q) /\ ~ResolvesToLayout(q)}},
     documents |-> PageDocuments(src),
     outputs_present |-> \A n \in PageDocuments(src) : r.before[n] # NoFile,
     others_untouched |->
         \A n \in PageDocuments(src) \ {path.name : path \in UNION changed} :
             r.src[n] = src[n] /\ r.merged[n] = r.before[n],
     ran |-> r.ran, ok |-> r.ok, full_rebuild |-> r.full_rebuild,
     page_paths |-> r.page_paths, result |-> r.result,
     sources |-> r.src, merged |-> r.merged, copied |-> r.copied]

\* main, up to the first build: clean_output_dir, then build_once(None)
Start ==
    /\ built = <<>>
    /\ \E r \in {build_once(src_files, clean_output_dir(src_files, out_files), {})} :
          /\ src_files' = r.src
          /\ out_files' = r.out
          /\ built' = <<BuildRecord(src_files, r, {})>>
    /\ UNCHANGED <<edits, layout_html, page_html, first_html, output_html, page_ok,
                   prev_ok, wrote_page, merged_slot, WatchVars>>

\* someone writes a file of the source root
Edit ==
    /\ built # <<>>
    /\ edits < MaxEdits
    /\ \E n \in FileNames : \E text \in TextsOf(n) :
          /\ text # src_files[n]
          /\ src_files' = [src_files EXCEPT ![n] = text]
    /\ edits' = edits + 1
    /\ UNCHANGED <<out_files, built, layout_html, page_html, first_html, output_html,
                   page_ok, prev_ok, wrote_page, merged_slot, WatchVars>>

\* someone deletes files of the source root
Delete ==
    /\ built # <<>>
    /\ edits < MaxEdits
    /\ \E gone \in SUBSET {n \in FileNames : src_files[n] # NoFile} :
          /\ gone # {}
          /\ src_files' = [n \in FileNames |-> IF n \in gone THEN NoFile ELSE src_files[n]]
    /\ edits' = edits + 1
    /\ UNCHANGED <<out_files, built, layout_html, page_html, first_html, output_html,
                   page_ok, prev_ok, wrote_page, merged_slot, WatchVars>>

\* a build of watch mode: build_once(Some(changed))
Rebuild ==
    /\ built # <<>>
    /\ \E built_page \in {PageBuilds(src_files, out_files)} :
          \E changed \in ChangedSets :
          \E r \in {BuildOnceWith(src_files, out_files, {changed}, built_page)} :
              /\ src_files' = r.src
              /\ out_files' = r.out
              /\ built' = <<BuildRecord(src_files, r, {changed})>>
    /\ UNCHANGED <<edits, layout_html, page_html, first_html, output_html, page_ok,
                   prev_ok, wrote_page, merged_slot, WatchVars>>

NextBuild == Start \/ Edit \/ Delete \/ Rebuild

SpecBuild == InitBuild /\ [][NextBuild]_vars

\* C3 as stated: after a build, a page that names a slot the layout does not
\* have has no output file and the build has failed, and every other page
\* the build processed has its output file.
C3_UnknownSlot ==
    (built # <<>> /\ built[1].ran)
        => \A n \in built[1].page_paths :
              /\ built[1].result[n] = "unknown" => (out_files[n] = NoFile /\ ~built[1].ok)
              /\ built[1].result[n] = "ok" => out_files[n] # NoFile

\* C6 as stated: a build whose changed-path set holds a path that resolves to
\* the layout file is a full rebuild that processes every page document of
\* the source root.
C6_LayoutChange ==
    (built # <<>> /\ built[1].watch /\ built[1].named_layout)
        => /\ built[1].full_rebuild
           /\ built[1].page_paths = built[1].documents

\* C6, amended: a build that can read the layout file and whose changed-path
\* set holds a path that resolves to the layout file is a full rebuild that
\* processes every page document of the source root.
C6_ReadableLayoutChange ==
    (built # <<>> /\ built[1].watch /\ built[1].named_layout /\ built[1].ran)
        => /\ built[1].full_rebuild
           /\ built[1].page_paths = built[1].documents

\* a build given the layout's path and another path has processed two pages
\* whose output files were there already
C6_Witness ==
    /\ built # <<>>
    /\ built[1].watch
    /\ built[1].named_layout
    /\ built[1].named_others
    /\ built[1].ran
    /\ built[1].full_rebuild
    /\ Cardinality(built[1].page_paths) = 2
    /\ edits = 1

C17_StaleRemoved ==
    (built # <<>> /\ built[1].watch)
        => \A n \in built[1].missing :
              /\ out_files[n] = NoFile
              /\ n \notin built[1].page_paths

\* C11: at the end of a build, a file copy_assets_diff takes for an asset was
\* not copied, and its destination is as it was, when the destination held
\* the content of the source; otherwise (destination missing or of another
\* content) it was copied and the destination holds the content of the source.
C11_AssetDiff ==
    (built # <<>> /\ built[1].ran)
        => \A n \in AssetCandidates(built[1].sources) :
              IF built[1].merged[n] = built[1].sources[n]
              THEN n \notin built[1].copied /\ out_files[n] = built[1].merged[n]
              ELSE n \in built[1].copied /\ out_files[n] = built[1].sources[n]

\* a watch-mode build has left alone the style sheet whose copy was there
\* already and identical, after an earlier build copied it to a missing
\* destination
C11_Witness ==
    /\ built # <<>>
    /\ built[1].ran
    /\ built[1].watch
    /\ \E n \in AssetNames :
          /\ n \in AssetCandidates(built[1].sources)
          /\ built[1].merged[n] = built[1].sources[n]
          /\ n \notin built[1].copied
          /\ out_files[n] = src_files[n]

\* C12 as stated: at the end of a build, the output file of every page the
\* build processed successfully holds the merged document of the page.
C12_OutputIntegrity ==
    (built # <<>> /\ built[1].ran)
        => \A n \in built[1].page_paths :
              built[1].result[n] = "ok" => out_files[n] = built[1].merged[n]

(***************************************************************************)
(* SpecWatch: the watch loop of main.  The watcher's callback sends the    *)
(* paths of an event on the channel; the loop waits on the channel for at  *)
(* most the window, collects what it receives in the pending set, and      *)
(* builds when a wait ends with nothing received.  Time is in              *)
(* milliseconds; the loop takes what the channel holds before time passes, *)
(* and a wait ends when the window has passed.                             *)
(***************************************************************************)

\* Duration::from_millis(150), of recv_timeout and of the elapsed test
DebounceMs == 150

MaxEvents == 3

MaxTime == 450

\* how far the clock moves in one step
Delays == {50, 100, 150}

\* the paths the watcher reports: the pages of the source root, one of them
\* also under the directory's other spelling, and a temporary file
WatchPaths ==
    [dir : {"src"}, name : PageNames]
        \cup {[dir |-> "alias", name |-> [stem |-> "a", ext |-> "html"]],
              [dir |-> "src", name |-> [stem |-> "a", ext |-> "tmp"]]}

\* the source root the loop starts on
WatchTree ==
    [n \in FileNames |->
        IF n = LAYOUT THEN TitleLayout
        ELSE IF n \in PageNames THEN PageParts[1]
        ELSE <<"css">>]

\* path.extension() is "tmp", whatever the case
is_tmp(path) == Lower(path.name.ext) = "tmp"

\* path.canonicalize().unwrap_or(path.clone())
Normalized(src, path) == IF Exists(src, path) THEN Canonical(path) ELSE path

InitWatch ==
    /\ PageIdle
    /\ \E r \in {build_once(WatchTree,
                             clean_output_dir(WatchTree, [n \in FileNames |-> NoFile]), {})} :
          /\ src_files = r.src
          /\ out_files = r.out
          /\ built = <<BuildRecord(WatchTree, r, {})>>
    /\ edits = 0
    /\ chan = <<>>
    /\ pending = {}
    /\ timer_active = FALSE
    /\ last_build = 0
    /\ now = 0
    /\ wait_from = 0
    /\ arrived = -1
    /\ burst = {}
    /\ burst_builds = 0
    /\ builds = <<>>
    /\ awaiting = {}

PageUnchanged ==
    UNCHANGED <<layout_html, page_html, first_html, output_html, page_ok, prev_ok,
                wrote_page, merged_slot>>

\* whether a notification at this instant belongs to the burst of the last one
InBurst == arrived >= 0 /\ now - arrived < DebounceMs

\* the watcher's callback, for an event with one path
Notify ==
    /\ edits < MaxEvents
    /\ edits' = edits + 1
    /\ \E path \in WatchPaths :
          IF is_tmp(path)
          THEN UNCHANGED <<chan, arrived, burst, burst_builds, awaiting>>
          ELSE /\ chan' = Append(chan, path)
               /\ awaiting' = awaiting \cup {path}
               /\ arrived' = now
               /\ burst' = (IF InBurst THEN burst ELSE {}) \cup {[path |-> path, at |-> now]}
               /\ burst_builds' = IF InBurst THEN burst_builds ELSE 0
    /\ UNCHANGED <<src_files, out_files, built, pending, timer_active, last_build, now,
                   wait_from, builds>>
    /\ PageUnchanged

\* an Ok(path) branch that does not start the timer
ReceiveUnarmed ==
    /\ chan # <<>>
    /\ pending' = pending \cup {Normalized(src_files, Head(chan))}
    /\ chan' = Tail(chan)
    /\ last_build' = now
    /\ wait_from' = now
    /\ UNCHANGED <<src_files, out_files, built, edits, now, arrived, burst, burst_builds,
                   builds, awaiting, timer_active>>
    /\ PageUnchanged

\* the loop's Ok(path) branch
Receive ==
    /\ chan # <<>>
    /\ pending' = pending \cup {Normalized(src_files, Head(chan))}
    /\ chan' = Tail(chan)
    /\ timer_active' = TRUE
    /\ last_build' = now
    /\ wait_from' = now
    /\ UNCHANGED <<src_files, out_files, built, edits, now, arrived, burst, burst_builds,
                   builds, awaiting>>
    /\ PageUnchanged

\* a wait that ends with a build whatever the loop has collected
BuildAlways == TRUE

\* timer_active && last_build.elapsed() >= Duration::from_millis(150)
BuildDue == timer_active /\ now - last_build >= DebounceMs

\* the sequences that hold each element of a set once
Orderings(S) ==
    {q \in [1..Cardinality(S) -> S] : \A i, j \in 1..Cardinality(S) : q[i] = q[j] => i = j}

\* the paths of the page files a build has written: the watcher watches the
\* source root, and its callback sends them while build_once runs
WrittenPaths(before, after) ==
    {[dir |-> "src", name |-> n] : n \in {m \in FileNames : after[m] # before[m]}}

\* whether a path the watcher sent is in a changed-path set, as the loop
\* inserted it
Included(path, changed_paths) ==
    path \in changed_paths \/ Canonical(path) \in changed_paths

\* the loop's Err(_) branch: the wait has lasted the window
Timeout ==
    /\ chan = <<>>
    /\ now - wait_from >= DebounceMs
    /\ wait_from' = now
    /\ IF BuildDue
       THEN /\ \E r \in {build_once(src_files, out_files, {pending})} :
                  /\ src_files' = r.src
                  /\ out_files' = r.out
                  /\ built' = <<BuildRecord(src_files, r, {pending})>>
                  /\ chan' \in Orderings(WrittenPaths(src_files, r.src))
                  /\ awaiting' = {path \in awaiting : ~Included(path, pending)}
                                     \cup WrittenPaths(src_files, r.src)
            /\ builds' = Append(builds, [at |-> now, changed_paths |-> pending])
            /\ burst_builds' = burst_builds + 1
            /\ pending' = {}
            /\ timer_active' = FALSE
       ELSE UNCHANGED <<src_files, out_files, built, builds, burst_builds, pending,
                        timer_active, chan, awaiting>>
    /\ UNCHANGED <<edits, last_build, now, arrived, burst>>
    /\ PageUnchanged

\* time passes while the loop waits
Tick ==
    /\ chan = <<>>
    /\ \E d \in Delays :
          /\ now + d <= wait_from + DebounceMs
          /\ now + d <= MaxTime
          /\ now' = now + d
    /\ UNCHANGED <<src_files, out_files, built, edits, chan, pending, timer_active,
                   last_build, wait_from, arrived, burst, burst_builds, builds, awaiting>>
    /\ PageUnchanged

NextWatch == Notify \/ Receive \/ Timeout \/ Tick

SpecWatch == InitWatch /\ [][NextWatch]_vars

\* C7: the notifications of a burst (each less than the window after the one
\* before) cause one call of build_once: none while the burst lasts, one by the
\* time the loop is idle again, made no sooner than the window after the last
\* notification, with every path of the burst in its changed-path set.
C7_Debounce ==
    burst # {}
        => /\ burst_builds <= 1
           /\ (chan = <<>> /\ ~timer_active) => burst_builds = 1
           /\ burst_builds = 0
                  => \A e \in burst :
                         \/ Normalized(src_files, e.path) \in pending
                         \/ \E k \in 1..Len(chan) : chan[k] = e.path
           /\ burst_builds = 1
                  => /\ builds # <<>>
                     /\ builds[Len(builds)].at >= arrived + DebounceMs
                     /\ \A e \in burst :
                            Normalized(src_files, e.path)
                                \in builds[Len(builds)].changed_paths

\* two notifications for two pages, 100 ms apart, have caused the one build made
C7_Witness ==
    /\ Len(builds) = 1
    /\ burst_builds = 1
    /\ \E e, f \in burst :
          /\ f.at = e.at + 100
          /\ e.path.name # f.path.name
          /\ e.path.name \in PageNames
          /\ f.path.name \in PageNames
    /\ Cardinality(builds[1].changed_paths) = 2

(***************************************************************************)
(* SpecQuiet: the watch loop with the files it watches.  Someone saves or  *)
(* deletes files of the source root a number of times and then stops; the  *)
(* watcher reports each change, and each page file a build rewrites.  The  *)
(* loop never stops: it takes what the channel holds, time passes while it *)
(* waits, and a wait ends when the window has passed.  Instants are kept   *)
(* as they are seen from the present one (now stays 0 and the instants     *)
(* recorded move into the past), none older than the window.               *)
(***************************************************************************)

MaxSaves == 2

LogoLayout == LayoutParts[5] \o <<"\n">>

\* the texts a watched file may hold
SavedTexts(n) ==
    IF n = LAYOUT THEN {TitleLayout, LogoLayout}
    ELSE IF n \in PageNames THEN {<<>>, PageParts[3]}
    ELSE {<<"css">>}

\* the trees the program is started on
QuietTrees ==
    {f \in [FileNames -> UNION {SavedTexts(n) : n \in FileNames} \cup {NoFile}] :
        /\ f[LAYOUT] \in SavedTexts(LAYOUT)
        /\ \A n \in PageNames : f[n] \in SavedTexts(n) \cup {NoFile}
        /\ \A n \in AssetNames : f[n] = NoFile}

\* main, up to the loop: the first build is made before the watcher exists
InitQuiet ==
    /\ PageIdle
    /\ \E tree \in QuietTrees :
       \E r \in {build_once(tree, clean_output_dir(tree, [n \in FileNames |-> NoFile]), {})} :
          /\ src_files = r.src
          /\ out_files = r.out
          /\ built = <<BuildRecord(tree, r, {})>>
    /\ edits = 0
    /\ WatchIdle

\* the files someone works on: the layout and one page
SavedNames == {LAYOUT, [stem |-> "a", ext |-> "html"]}

\* the paths the watcher may report a file of the source root under
PathsOf(n) == {path \in WatchPaths \cup {layout_path} : path.name.stem = n.stem}

\* someone saves or deletes a file of the source root, or an editor writes
\* its temporary file; the watcher's callback gets the path
Save ==
    /\ edits < MaxSaves
    /\ edits' = edits + 1
    /\ \E n \in SavedNames : \E path \in PathsOf(n) :
          IF is_tmp(path)
          THEN UNCHANGED <<src_files, chan, awaiting>>
          ELSE /\ path.name = n
               /\ \E text \in SavedTexts(n) \cup {NoFile} :
                     /\ text # src_files[n]
                     /\ src_files' = [src_files EXCEPT ![n] = text]
               /\ chan' = Append(chan, path)
               /\ awaiting' = awaiting \cup {path}
    /\ UNCHANGED <<out_files, built, pending, timer_active, last_build, now, wait_from,
                   arrived, burst, burst_builds, builds>>
    /\ PageUnchanged

\* how far the clock moves in one step of a wait
Pauses == {DebounceMs \div 2, DebounceMs}

Older(instant, d) == IF instant - d < now - DebounceMs THEN now - DebounceMs ELSE instant - d

\* time passes while the loop waits
Wait ==
    /\ chan = <<>>
    /\ \E d \in Pauses :
          /\ now + d <= wait_from + DebounceMs
          /\ wait_from' = wait_from - d
          /\ last_build' = Older(last_build, d)
    /\ UNCHANGED <<src_files, out_files, built, edits, chan, pending, timer_active, now,
                   arrived, burst, burst_builds, builds, awaiting>>
    /\ PageUnchanged

NextQuiet == Save \/ Receive \/ Timeout \/ Wait

\* the end of a wait that has lasted the window: the step that begins the
\* loop's Err(_) branch, and no other step of the loop
WaitEnds ==
    /\ chan = <<>>
    /\ now - wait_from >= DebounceMs
    /\ wait_from' = now

\* the loop is one thread that never ends, and the clock does not stop: what
\* the channel holds is received, a wait goes on, and a wait that has lasted
\* the window ends
SpecQuiet ==
    /\ InitQuiet
    /\ [][NextQuiet]_vars
    /\ WF_vars(Receive)
    /\ WF_vars(Wait)
    /\ WF_wait_from(WaitEnds)

\* the scheduler is idle: nothing sent, nothing pending, no timer
SchedulerIdle == chan = <<>> /\ pending = {} /\ ~timer_active

\* C18: once the saves have stopped, the scheduler is eventually idle with an
\* empty pending set and stays idle, so that the page files the builds rewrite
\* cause finitely many further builds; and whenever it is idle, every path
\* the watcher sent has been in the changed-path set of a build.
C18_Quiescence ==
    /\ [](SchedulerIdle => awaiting = {})
    /\ <>[]SchedulerIdle

\* one save of a page file has been followed by three builds, the second and
\* the third for the path of the page file the build before rewrote, and the
\* scheduler is idle
C18_Witness ==
    /\ SchedulerIdle
    /\ edits = 1
    /\ Len(builds) = 3
    /\ \E n \in PageNames :
          /\ builds[2].changed_paths = {[dir |-> "src", name |-> n]}
          /\ builds[3].changed_paths = {[dir |-> "src", name |-> n]}

====
